---- MODULE Spec2Model ----
(***************************************************************************)
(* The table-properties bridge of rust-rocksdb (src/table_properties.rs):  *)
(* the factory and collector trampolines the engine calls during a table   *)
(* build, the property marshaling in both directions, the entry type       *)
(* codec, and the read-side TableProperties / TablePropertiesCollection.   *)
(* The collector and factory driven through the bridge are the ones of     *)
(* tests/test_table_properties.rs.                                         *)
(***************************************************************************)
EXTENDS Integers, Sequences, FiniteSets, TLC

(***************************************************************************)
(* Bounds of the model.                                                    *)
(***************************************************************************)
\* table builds (one collector each) the engine runs, possibly overlapping
MaxCollectors == 2
\* records a collector of overlapping builds is fed
MaxKeys == 1
\* records the collector of the build that is read back is fed
MaxRoundTripKeys == 3
\* table handles the engine hands out through collections
MaxHandles == 3
\* raw tags from -MaxTag to MaxTag are decoded, besides the i32 extremes
MaxTag == 60

Builds == 1..MaxCollectors
Handles == 1..MaxHandles

(***************************************************************************)
(* Entry type tags of the engine: the rocksdb_k_entry constants of the      *)
(* bindings.                                                               *)
(***************************************************************************)
rocksdb_k_entry_put == 0
rocksdb_k_entry_delete == 1
rocksdb_k_entry_single_delete == 2
rocksdb_k_entry_merge == 3
rocksdb_k_entry_range_deletion == 4
rocksdb_k_entry_block_index == 5
rocksdb_k_entry_delete_with_timestamp == 6
rocksdb_k_entry_wide_column_entity == 7
rocksdb_k_entry_timed_put == 8
rocksdb_k_entry_other == 9

\* i32::MAX and i32::MIN
I32Max == 2147483647
I32Min == (-I32Max) - 1
\* a u32 is kept as its two 16-bit halves <<high, low>>
Half == 65536
U32(n) == <<n \div Half, n % Half>>

\* Option<T>
None == <<>>
Some(v) == <<v>>

\* `value as u32` for an i32: the same 32 bits, so a negative value becomes
\* value + 2^32
as_u32(value) ==
    IF value >= 0 THEN U32(value)
    ELSE <<((value - I32Min) \div Half) + (Half \div 2), (value - I32Min) % Half>>

\* the mutation of EntryType::from_raw whose catch-all arm falls back to a variant
from_raw_defaulting(value) ==
    IF value < 0 THEN Some("Other")
    ELSE IF as_u32(value) = U32(rocksdb_k_entry_put) THEN Some("Put")
    ELSE IF as_u32(value) = U32(rocksdb_k_entry_delete) THEN Some("Delete")
    ELSE IF as_u32(value) = U32(rocksdb_k_entry_single_delete) THEN Some("SingleDelete")
    ELSE IF as_u32(value) = U32(rocksdb_k_entry_merge) THEN Some("Merge")
    ELSE IF as_u32(value) = U32(rocksdb_k_entry_range_deletion) THEN Some("RangeDeletion")
    ELSE IF as_u32(value) = U32(rocksdb_k_entry_block_index) THEN Some("BlockIndex")
    ELSE IF as_u32(value) = U32(rocksdb_k_entry_delete_with_timestamp)
         THEN Some("DeleteWithTimestamp")
    ELSE IF as_u32(value) = U32(rocksdb_k_entry_wide_column_entity)
         THEN Some("WideColumnEntity")
    ELSE IF as_u32(value) = U32(rocksdb_k_entry_timed_put) THEN Some("TimedPut")
    ELSE Some("Other")

\* EntryType::from_raw
from_raw(value) ==
    IF value < 0 THEN None
    ELSE IF as_u32(value) = U32(rocksdb_k_entry_put) THEN Some("Put")
    ELSE IF as_u32(value) = U32(rocksdb_k_entry_delete) THEN Some("Delete")
    ELSE IF as_u32(value) = U32(rocksdb_k_entry_single_delete) THEN Some("SingleDelete")
    ELSE IF as_u32(value) = U32(rocksdb_k_entry_merge) THEN Some("Merge")
    ELSE IF as_u32(value) = U32(rocksdb_k_entry_range_deletion) THEN Some("RangeDeletion")
    ELSE IF as_u32(value) = U32(rocksdb_k_entry_block_index) THEN Some("BlockIndex")
    ELSE IF as_u32(value) = U32(rocksdb_k_entry_delete_with_timestamp)
         THEN Some("DeleteWithTimestamp")
    ELSE IF as_u32(value) = U32(rocksdb_k_entry_wide_column_entity)
         THEN Some("WideColumnEntity")
    ELSE IF as_u32(value) = U32(rocksdb_k_entry_timed_put) THEN Some("TimedPut")
    ELSE IF as_u32(value) = U32(rocksdb_k_entry_other) THEN Some("Other")
    ELSE None

\* Option::unwrap_or: the mutation of unwrap that substitutes a variant
unwrap_or_put(opt) == IF opt = None THEN "Put" ELSE opt[1]

\* Option::unwrap: the value, or a panic
unwrap(opt) == IF opt = None THEN "panic" ELSE opt[1]

(***************************************************************************)
(* Byte strings are sequences of byte values; a PropertyMap (BTreeMap of   *)
(* byte strings) is a function from its key set to the values.             *)
(***************************************************************************)
\* "k1" and "a", the record of the test; a second, longer value
K1 == <<107, 49>>
ValA == <<97>>
ValLong == <<97, 97, 97, 97, 97, 97, 97, 97>>
\* "num-keys" and "total-bytes"
NumKeysKey == <<110, 117, 109, 45, 107, 101, 121, 115>>
TotalBytesKey == <<116, 111, 116, 97, 108, 45, 98, 121, 116, 101, 115>>

\* slice::from_raw_parts(data, len).to_vec(): the len bytes at data; what lies
\* behind the end of the buffer reads as zero bytes
from_raw_parts(data, len) ==
    [i \in 1..len |-> IF i <= Len(data) THEN data[i] ELSE 0]

\* usize::to_string().into_bytes(): the decimal digits
RECURSIVE to_string(_)
to_string(n) ==
    IF n < 10 THEN <<48 + n>> ELSE to_string(n \div 10) \o <<48 + (n % 10)>>

\* byte-lexicographic order of Box<[u8]>
RECURSIVE LexLess(_, _)
LexLess(a, b) ==
    IF a = <<>> THEN b # <<>>
    ELSE IF b = <<>> THEN FALSE
    ELSE IF a[1] # b[1] THEN a[1] < b[1]
    ELSE LexLess(Tail(a), Tail(b))

EmptyMap == <<>>

\* BTreeMap::insert: the key's old value, if any, is replaced
MapInsert(map, k, v) ==
    [j \in (DOMAIN map) \cup {k} |-> IF j = k THEN v ELSE map[j]]

\* iteration of a BTreeMap: its pairs by ascending key
RECURSIVE MapIter(_)
MapIter(map) ==
    IF DOMAIN map = {} THEN <<>>
    ELSE LET k == CHOOSE x \in DOMAIN map :
                      \A y \in (DOMAIN map) \ {x} : LexLess(x, y)
         IN  <<<<k, map[k]>>>> \o MapIter([j \in (DOMAIN map) \ {k} |-> map[j]])

(***************************************************************************)
(* The collector and the factory of tests/test_table_properties.rs.        *)
(***************************************************************************)
\* TablePropertiesCollectorFactoryImpl::create: a collector with both counters 0
Impl_create == [num_keys |-> 0, total_bytes |-> 0]

\* the mutation of the counting collector that counts records of every type
Impl_add_user_key_any(self, key, value, entry_type) ==
    [num_keys |-> self.num_keys + 1,
     total_bytes |-> self.total_bytes + Len(key) + Len(value)]

\* TablePropertiesCollectorImpl::add_user_key
Impl_add_user_key(self, key, value, entry_type) ==
    IF entry_type = "Put"
    THEN [num_keys |-> self.num_keys + 1,
          total_bytes |-> self.total_bytes + Len(key) + Len(value)]
    ELSE self

\* TablePropertiesCollectorImpl::block_add
Impl_block_add(self) == self

\* TablePropertiesCollectorImpl::finish_properties
Impl_finish_properties(self) ==
    MapInsert(MapInsert(EmptyMap, NumKeysKey, to_string(self.num_keys)),
              TotalBytesKey, to_string(self.total_bytes))

\* TablePropertiesCollectorImpl::get_readable_properties: BTreeMap::new()
Impl_get_readable_properties(self) == EmptyMap

\* the mutation of the trait's default that falls back on finish_properties
get_readable_properties_finish(self) == Impl_finish_properties(self)

\* the default of TablePropertiesCollector::get_readable_properties, the
\* method of a collector that does not override it: BTreeMap::default()
get_readable_properties(self) == EmptyMap

(***************************************************************************)
(* The engine's side of the foreign interface.                             *)
(***************************************************************************)
\* the engine's add-property function: it copies the len bytes behind each
\* pointer and keeps the pair in its property set
EngineAddProperty(sink, key_data, key_len, value_data, value_len) ==
    Append(sink, <<from_raw_parts(key_data, key_len),
                   from_raw_parts(value_data, value_len)>>)

(***************************************************************************)
(* Outbound marshaling: the loop of collector_finish_properties_callback   *)
(* and collector_get_readable_properties_callback.                         *)
(***************************************************************************)
\* the mutation of the loop that pushes the first pair only
PushFirstOnly(sink, pairs) ==
    IF pairs = <<>> THEN sink
    ELSE EngineAddProperty(sink, Head(pairs)[1], Len(Head(pairs)[1]),
                           Head(pairs)[2], Len(Head(pairs)[2]))

\* for (key, value) in &map { callback(properties, key.as_ptr(), key.len(),
\* value.as_ptr(), value.len()) }
RECURSIVE PushAll(_, _)
PushAll(sink, pairs) ==
    IF pairs = <<>> THEN sink
    ELSE PushAll(EngineAddProperty(sink, Head(pairs)[1], Len(Head(pairs)[1]),
                                   Head(pairs)[2], Len(Head(pairs)[2])),
                 Tail(pairs))

(***************************************************************************)
(* Inbound marshaling.                                                     *)
(***************************************************************************)
\* the mutation of table_property_reader that slices the value with key_len
table_property_reader_keylen(map, key_data, key_len, value_data, value_len) ==
    MapInsert(map, from_raw_parts(key_data, key_len),
              from_raw_parts(value_data, key_len))

\* the mutation of table_property_reader that keeps the value a key has
table_property_reader_or_insert(map, key_data, key_len, value_data, value_len) ==
    IF from_raw_parts(key_data, key_len) \in DOMAIN map
    THEN map
    ELSE MapInsert(map, from_raw_parts(key_data, key_len),
                   from_raw_parts(value_data, value_len))

\* table_property_reader: copies key and value and inserts them into the map
\* behind the state pointer
table_property_reader(map, key_data, key_len, value_data, value_len) ==
    MapInsert(map, from_raw_parts(key_data, key_len),
              from_raw_parts(value_data, value_len))

\* the engine's for-each over one of a table's property sets: the reader is
\* called once per stored pair, in the stored order
RECURSIVE EngineForEach(_, _)
EngineForEach(state, stored) ==
    IF stored = <<>> THEN state
    ELSE EngineForEach(table_property_reader(state, Head(stored)[1],
                                             Len(Head(stored)[1]),
                                             Head(stored)[2],
                                             Len(Head(stored)[2])),
                       Tail(stored))

\* the engine's rocksdb_table_properties_user_collected: the for-each over the
\* user-collected set of the table behind the handle
rocksdb_table_properties_user_collected(table, state) ==
    EngineForEach(state, table.user)

\* the engine's rocksdb_table_properties_readable: the for-each over the
\* readable set of the table behind the handle
rocksdb_table_properties_readable(table, state) ==
    EngineForEach(state, table.readable)

\* TableProperties::user_collected_properties on the handle of `table`
user_collected_properties(table) ==
    rocksdb_table_properties_user_collected(table, EmptyMap)

\* the mutation of readable_properties that calls the other entry point
readable_properties_user(table) ==
    rocksdb_table_properties_user_collected(table, EmptyMap)

\* TableProperties::readable_properties on the handle of `table`
readable_properties(table) ==
    rocksdb_table_properties_readable(table, EmptyMap)

(***************************************************************************)
(* Ownership of the heap allocation behind an opaque pointer.              *)
(***************************************************************************)
\* Box::new / Box::into_raw: a live allocation that was never freed
BoxIntoRaw == [alloc |-> "live", frees |-> 0]

\* drop(Box::from_raw(raw_self)): the allocation is freed
BoxFromRawDrop(cell) == [alloc |-> "freed", frees |-> cell.frees + 1]

\* the mutation of the borrow that takes the Box back and drops it
BorrowReclaims(cell) == [alloc |-> "freed", frees |-> cell.frees + 1]

\* &*(raw_self as *const T) and &mut *(raw_self as *mut T): a borrow, the
\* allocation stays as it is
Borrow(cell) == cell

\* the mutation of the factory's drop in which the factory owns the collectors
\* it created and frees them with itself
DropFactoryOwning(heap) ==
    [b \in DOMAIN heap |->
        IF heap[b].alloc = "live"
        THEN [alloc |-> "freed", frees |-> heap[b].frees + 1] ELSE heap[b]]

\* what drop(Box<F>) does to the collectors' allocations: nothing, each
\* collector was moved out of create into a Box of its own, which the engine owns
DropFactory(heap) == heap

\* the mutation of the cast that resolves every opaque pointer to one instance
SelfShared(raw_self) == 1

\* raw_self as *mut C: the instance behind the opaque pointer
SelfOf(raw_self) == raw_self

\* what a panic does when it reaches the end of an `extern "C-unwind"` function
ExternCUnwindPanic == "unwound"

\* what a panic does when it reaches the end of an `extern "C"` function: the
\* process aborts, the unwind does not enter the caller's frames
ExternCPanic == "aborted"

\* if let Some(callback) = add_user_properties_callback: the body runs when
\* the engine passed a function (TRUE), not when it passed none (FALSE)
IfLetSome(add_user_properties_callback) == add_user_properties_callback

\* the pairs the add-user-key slot would push if it marshaled on every record
AddUserKeyPushesEager(self) == MapIter(Impl_finish_properties(self))

\* the pairs collector_add_user_key_callback pushes to the engine: it is given
\* no sink and no add-property function
AddUserKeyPushes(self) == <<>>

(***************************************************************************)
(* State.                                                                  *)
(***************************************************************************)
VARIABLES
    proc,           \* "running", "aborted", or "unwound" into the engine's frames
    abortCause,     \* "none", "bad_tag" (unwrap of None) or "user_panic"
    sentBadTag,     \* the engine has passed an undocumented tag to add-user-key
    factory,        \* the boxed factory: its allocation and the state create mutates
    factoryHandle,  \* the engine's factory handle: "held" or "destroyed"
    pc,             \* per build: "idle", "creating" (inside create), "created"
    loaded,         \* per build: what its create call read from the factory
    heap,           \* per collector: the allocation behind the opaque pointer
    obj,            \* per collector: the fields of TablePropertiesCollectorImpl
    handle,         \* per build: the engine's collector handle
    finished,       \* per build: "no", or the finish slot "forwarded" / "skipped"
    emitted,        \* per build: the map finish_properties returned
    props,          \* per build: the table's user-collected set, in the engine
    readable,       \* per build: the table's readable set, in the engine
    own,            \* per build: the Puts the engine fed to this collector
    ownAtFinish,    \* per build: `own` when the finish slot was called
    lastRead,       \* the last read-back: <<build, map>>
    rawTag,         \* codec: the raw tag last decoded
    decoded,        \* codec: what from_raw returned for it
    decodeDone,     \* codec: a tag was decoded
    issued,         \* read side: table handles the engine has handed out so far
    tp,             \* per table handle, in the engine: its state and destroy calls
    stored,         \* per table handle, in the engine: its two property sets
    collHeld,       \* a TablePropertiesCollection is alive
    tables,         \* its `tables`: the TableProperties it still owns
    cur,            \* the TableProperties moved out of it by iteration, if any
    reported,       \* the handles the engine reported to the last from_raw
    built,          \* from_raw has run
    lastBuilt,      \* what the last from_raw returned, and its calls of next
    readAfterDestroy, \* an accessor was called on a destroyed handle
    lastMap,        \* the last accessor call: <<handle, accessor, result>>
    traced,         \* the engine's calls of the slots are being recorded
    lastCall        \* the last call recorded: the slot, what it was given and did

procVars == <<proc, abortCause, sentBadTag>>
factoryVars == <<factory, factoryHandle, pc, loaded>>
collectorVars == <<heap, obj, handle>>
tableVars == <<finished, emitted, props, readable, ownAtFinish, lastRead>>
codecVars == <<rawTag, decoded, decodeDone>>
readVars == <<issued, tp, stored, collHeld, tables, cur, reported, built,
              lastBuilt, readAfterDestroy, lastMap>>
traceVars == <<traced, lastCall>>
buildVars == <<procVars, factoryVars, collectorVars, tableVars, own, traceVars>>
vars == <<buildVars, codecVars, readVars>>

\* what the engine passes to the add-user-key slot
InputKeys == {K1}
InputValues == {ValA, ValLong}
\* the values of concurrent builds: records of one size
LongValues == {ValLong}
DocumentedTags ==
    {rocksdb_k_entry_put, rocksdb_k_entry_delete, rocksdb_k_entry_single_delete,
     rocksdb_k_entry_merge, rocksdb_k_entry_range_deletion,
     rocksdb_k_entry_block_index, rocksdb_k_entry_delete_with_timestamp,
     rocksdb_k_entry_wide_column_entity, rocksdb_k_entry_timed_put,
     rocksdb_k_entry_other}
InputTags ==
    {rocksdb_k_entry_put, rocksdb_k_entry_delete, -1, rocksdb_k_entry_other + 1}

\* what an overriding get_readable_properties may return: a map of two pairs
ReadableMaps == {[k \in {K1, NumKeysKey} |-> IF k = K1 THEN ValA ELSE <<49>>]}

\* maps an implementation of finish_properties may return: every map from
\* some of SampleKeys to SampleValues; they include the empty key, the empty
\* value, a key that is a prefix of another and a zero byte
SampleKeys == {<<>>, <<0>>, <<0, 1>>}
SampleValues == {<<>>, <<0>>, <<1, 0>>}
ArbitraryMaps == UNION {[keys -> SampleValues] : keys \in SUBSET SampleKeys}

\* the levels the engine builds tables at; -1 is its "unknown level"
Levels == {-1, 0, 6}

\* the engine's rocksdb_table_properties_collector_factory_context_level_at_creation
rocksdb_table_properties_collector_factory_context_level_at_creation(ctx) ==
    ctx.level

\* the mutation of the decoding that leaves the level at its default
TablePropertiesCollectorFactoryContext_default(ctx) == [level_at_creation |-> 0]

\* TablePropertiesCollectorFactoryContext::from_raw
TablePropertiesCollectorFactoryContext_from_raw(ctx) ==
    [level_at_creation |->
        rocksdb_table_properties_collector_factory_context_level_at_creation(ctx)]

\* the record of one call of a slot: whether an add-property function came
\* with it, how many times the user's method was invoked, how many calls of
\* the add-property function were made, whether the method is the trait's
\* default, for add-user-key the raw tag, and for create the level in the
\* engine's context handle and the context the user's create received
Call(slot, build, callback, forwards, pushes) ==
    [slot |-> slot, build |-> build, callback |-> callback,
     forwards |-> forwards, pushes |-> pushes, inherited |-> FALSE,
     tag |-> 0, level |-> 0, ctx |-> None]

NoCall == Call("none", 0, FALSE, 0, 0)

Log(call) ==
    /\ traced' = traced
    /\ lastCall' = IF traced THEN call ELSE lastCall

\* create_table_properties_collector_factory has boxed the factory and handed
\* it to the engine; no table build has started
InitState ==
    /\ proc = "running"
    /\ abortCause = "none"
    /\ sentBadTag = FALSE
    /\ factory = [cell |-> BoxIntoRaw, created |-> 0]
    /\ factoryHandle = "held"
    /\ pc = [b \in Builds |-> "idle"]
    /\ loaded = [b \in Builds |-> 0]
    /\ heap = [b \in Builds |-> [alloc |-> "none", frees |-> 0]]
    /\ obj = [b \in Builds |-> Impl_create]
    /\ handle = [b \in Builds |-> "none"]
    /\ finished = [b \in Builds |-> "no"]
    /\ emitted = [b \in Builds |-> EmptyMap]
    /\ props = [b \in Builds |-> <<>>]
    /\ readable = [b \in Builds |-> <<>>]
    /\ own = [b \in Builds |-> [puts |-> 0, bytes |-> 0]]
    /\ ownAtFinish = [b \in Builds |-> [puts |-> 0, bytes |-> 0]]
    /\ lastRead = <<>>
    /\ rawTag = 0
    /\ decoded = None
    /\ decodeDone = FALSE
    /\ issued = 0
    /\ tp = [k \in Handles |-> [state |-> "none", destroys |-> 0]]
    /\ stored = [k \in Handles |-> [user |-> <<>>, readable |-> <<>>]]
    /\ collHeld = FALSE
    /\ tables = <<>>
    /\ cur = <<>>
    /\ reported = <<>>
    /\ built = FALSE
    /\ lastBuilt = [tables |-> <<>>, calls |-> 0]
    /\ readAfterDestroy = FALSE
    /\ lastMap = <<>>
    /\ lastCall = NoCall

Init == InitState /\ traced = FALSE

\* the same, the engine's calls being recorded
InitTraced == InitState /\ traced = TRUE

\* a panic reaches the end of a trampoline callback
Panic(cause) ==
    /\ proc' = ExternCPanic
    /\ abortCause' = cause

NoPanic == UNCHANGED <<proc, abortCause>>

(***************************************************************************)
(* Factory trampoline.                                                     *)
(***************************************************************************)
\* factory_name_callback
FactoryName ==
    /\ proc = "running"
    /\ factoryHandle = "held"
    /\ \E user_panics \in BOOLEAN :
          IF user_panics
          THEN Panic("user_panic") /\ UNCHANGED factory
          ELSE NoPanic /\ factory' = [factory EXCEPT !.cell = Borrow(@)]
    /\ Log(Call("factory_name", 0, TRUE, 1, 0))
    /\ UNCHANGED <<sentBadTag, factoryHandle, pc, loaded, collectorVars,
                   tableVars, own, codecVars, readVars>>

\* create_table_properties_collector_callback up to the point where the user's
\* create, holding &mut F and given the decoded context, has read the factory's
\* state; the engine's context handle carries one of `levels`
CreateBegin(b, levels) ==
    /\ proc = "running"
    /\ factoryHandle = "held"
    /\ pc[b] = "idle"
    /\ \E user_panics \in BOOLEAN, level \in levels :
          LET context == [level |-> level]
              ctx == TablePropertiesCollectorFactoryContext_from_raw(context)
          IN  /\ Log([Call("create", b, TRUE, 1, 0) EXCEPT
                          !.level = level, !.ctx = Some(ctx)])
              /\ IF user_panics
                 THEN Panic("user_panic") /\ UNCHANGED <<factory, pc, loaded>>
                 ELSE /\ NoPanic
                      /\ factory' = [factory EXCEPT !.cell = Borrow(@)]
                      /\ loaded' = [loaded EXCEPT ![b] = factory.created]
                      /\ pc' = [pc EXCEPT ![b] = "creating"]
    /\ UNCHANGED <<sentBadTag, factoryHandle, collectorVars, tableVars, own,
                   codecVars, readVars>>

\* the rest of create_table_properties_collector_callback: the user's create
\* writes the factory's state back and returns the collector, which is boxed
\* and handed to rocksdb_table_properties_collector_create
CreateEnd(b) ==
    /\ proc = "running"
    /\ pc[b] = "creating"
    /\ factory' = [factory EXCEPT !.created = loaded[b] + 1]
    /\ pc' = [pc EXCEPT ![b] = "created"]
    /\ heap' = [heap EXCEPT ![b] = BoxIntoRaw]
    /\ obj' = [obj EXCEPT ![b] = Impl_create]
    /\ handle' = [handle EXCEPT ![b] = "held"]
    /\ UNCHANGED <<procVars, factoryHandle, loaded, tableVars, own, traceVars,
                   codecVars, readVars>>

\* factory_destructor_callback, called by the engine at teardown
FactoryDestroy ==
    /\ proc = "running"
    /\ factoryHandle = "held"
    /\ \A b \in Builds : pc[b] # "creating"
    /\ factoryHandle' = "destroyed"
    /\ factory' = [factory EXCEPT !.cell = BoxFromRawDrop(@)]
    /\ heap' = DropFactory(heap)
    /\ Log(Call("factory_destroy", 0, TRUE, 0, 0))
    /\ UNCHANGED <<procVars, pc, loaded, obj, handle, tableVars, own, codecVars,
                   readVars>>

(***************************************************************************)
(* Collector trampoline.                                                   *)
(***************************************************************************)
\* collector_name_callback
CollectorName(b) ==
    /\ proc = "running"
    /\ handle[b] = "held"
    /\ \E user_panics \in BOOLEAN :
          IF user_panics
          THEN Panic("user_panic") /\ UNCHANGED heap
          ELSE NoPanic /\ heap' = [heap EXCEPT ![SelfOf(b)] = Borrow(@)]
    /\ Log(Call("name", SelfOf(b), TRUE, 1, 0))
    /\ UNCHANGED <<sentBadTag, factoryVars, obj, handle, tableVars, own, codecVars, readVars>>

\* collector_add_user_key_callback, the engine passing a value of `values`;
\* the engine stops once the collector has counted `cap` records
AddUserKey(b, values, cap) ==
    /\ proc = "running"
    /\ handle[b] = "held"
    /\ obj[SelfOf(b)].num_keys < cap
    /\ \E raw_key \in InputKeys, raw_value \in values,
          tag \in InputTags, user_panics \in BOOLEAN :
          LET self == SelfOf(b)
              key == from_raw_parts(raw_key, Len(raw_key))
              value == from_raw_parts(raw_value, Len(raw_value))
              entry_type == unwrap(from_raw(tag))
          IN  /\ sentBadTag' = (sentBadTag \/ tag \notin DocumentedTags)
              /\ Log([Call("add_user_key", self, TRUE,
                           IF entry_type = "panic" THEN 0 ELSE 1, 0)
                          EXCEPT !.tag = tag])
              /\ IF entry_type = "panic"
                 THEN Panic("bad_tag") /\ UNCHANGED <<heap, obj, props, own>>
                 ELSE IF user_panics
                 THEN Panic("user_panic") /\ UNCHANGED <<heap, obj, props, own>>
                 ELSE /\ NoPanic
                      /\ heap' = [heap EXCEPT ![self] = Borrow(@)]
                      /\ obj' = [obj EXCEPT ![self] =
                                    Impl_add_user_key(@, key, value, entry_type)]
                      /\ props' = [props EXCEPT ![b] =
                                      PushAll(@, AddUserKeyPushes(obj'[self]))]
                      /\ own' = [own EXCEPT ![b] =
                                    IF tag = rocksdb_k_entry_put
                                    THEN [puts |-> @.puts + 1,
                                          bytes |-> @.bytes + Len(raw_key)
                                                            + Len(raw_value)]
                                    ELSE @]
    /\ UNCHANGED <<factoryVars, handle, finished, emitted, readable,
                   ownAtFinish, lastRead, codecVars, readVars>>

\* collector_block_add_callback
BlockAdd(b) ==
    /\ proc = "running"
    /\ handle[b] = "held"
    /\ \E user_panics \in BOOLEAN :
          IF user_panics
          THEN Panic("user_panic") /\ UNCHANGED <<heap, obj>>
          ELSE /\ NoPanic
               /\ heap' = [heap EXCEPT ![SelfOf(b)] = Borrow(@)]
               /\ obj' = [obj EXCEPT ![SelfOf(b)] = Impl_block_add(@)]
    /\ Log(Call("block_add", SelfOf(b), TRUE, 1, 0))
    /\ UNCHANGED <<sentBadTag, factoryVars, handle, tableVars, own, codecVars, readVars>>

\* collector_finish_properties_callback; the engine calls the slot once per
\* build, with an add-property function (has_callback) or with none. The map
\* is the one the counting collector returns, or one of `others`, the maps the
\* finish_properties of another implementation of the trait returns
FinishProperties(b, callbacks, others) ==
    /\ proc = "running"
    /\ handle[b] = "held"
    /\ finished[b] = "no"
    /\ \E has_callback \in callbacks, user_panics \in BOOLEAN,
          map \in {Impl_finish_properties(obj[SelfOf(b)])} \cup others :
          LET self == SelfOf(b)
          IN  IF ~IfLetSome(has_callback)
              THEN /\ NoPanic
                   /\ finished' = [finished EXCEPT ![b] = "skipped"]
                   /\ Log(Call("finish_properties", self, has_callback, 0, 0))
                   /\ UNCHANGED <<heap, emitted, props>>
              ELSE IF user_panics
              THEN /\ Panic("user_panic")
                   /\ Log(Call("finish_properties", self, has_callback, 1, 0))
                   /\ UNCHANGED <<heap, finished, emitted, props>>
              ELSE /\ NoPanic
                   /\ heap' = [heap EXCEPT ![self] = Borrow(@)]
                   /\ finished' = [finished EXCEPT ![b] = "forwarded"]
                   /\ emitted' = [emitted EXCEPT ![b] = map]
                   /\ props' = [props EXCEPT ![b] = PushAll(@, MapIter(map))]
                   /\ Log(Call("finish_properties", self, has_callback, 1,
                               Len(props'[b]) - Len(props[b])))
    /\ ownAtFinish' = [ownAtFinish EXCEPT ![b] = own[b]]
    /\ UNCHANGED <<sentBadTag, factoryVars, obj, handle, readable, lastRead, own,
                   codecVars, readVars>>

\* collector_get_readable_properties_callback; the engine calls the slot with
\* the table's readable set, still empty, as the sink. The collector inherits
\* the trait's default get_readable_properties, or overrides it: with the
\* method of the counting collector or with one that returns a map of `others`
GetReadableProperties(b, others) ==
    /\ proc = "running"
    /\ handle[b] = "held"
    /\ readable[b] = <<>>
    /\ \E has_callback \in BOOLEAN, user_panics \in BOOLEAN, inherited \in BOOLEAN :
       \E map \in IF inherited
                  THEN {get_readable_properties(obj[SelfOf(b)])}
                  ELSE {Impl_get_readable_properties(obj[SelfOf(b)])} \cup others :
          LET self == SelfOf(b)
              call(forwards, pushes) ==
                  [Call("get_readable_properties", self, has_callback,
                        forwards, pushes) EXCEPT !.inherited = inherited]
          IN  IF ~IfLetSome(has_callback)
              THEN NoPanic /\ Log(call(0, 0)) /\ UNCHANGED <<heap, readable>>
              ELSE IF user_panics
              THEN /\ Panic("user_panic")
                   /\ Log(call(1, 0))
                   /\ UNCHANGED <<heap, readable>>
              ELSE /\ NoPanic
                   /\ heap' = [heap EXCEPT ![self] = Borrow(@)]
                   /\ readable' = [readable EXCEPT ![b] = PushAll(@, MapIter(map))]
                   /\ Log(call(1, Len(readable'[b]) - Len(readable[b])))
    /\ UNCHANGED <<sentBadTag, factoryVars, obj, handle, finished, emitted, props,
                   ownAtFinish, lastRead, own, codecVars, readVars>>

\* collector_destructor_callback, called by the engine when it disposes of the
\* table's collector
CollectorDestroy(b) ==
    /\ proc = "running"
    /\ handle[b] = "held"
    /\ handle' = [handle EXCEPT ![b] = "destroyed"]
    /\ heap' = [heap EXCEPT ![SelfOf(b)] = BoxFromRawDrop(@)]
    /\ Log(Call("destroy", SelfOf(b), TRUE, 0, 0))
    /\ UNCHANGED <<procVars, factoryVars, obj, tableVars, own, codecVars, readVars>>

\* the built table is read back: user_collected_properties and
\* readable_properties on a TableProperties of the table of build b
ReadBack(b) ==
    /\ proc = "running"
    /\ finished[b] # "no"
    /\ LET table == [user |-> props[b], readable |-> readable[b]]
       IN  lastRead' = <<b, user_collected_properties(table),
                         readable_properties(table)>>
    /\ UNCHANGED <<procVars, factoryVars, collectorVars, finished, emitted, props,
                   readable, ownAtFinish, own, traceVars, codecVars, readVars>>

Next ==
    \/ FactoryName
    \/ FactoryDestroy
    \/ \E b \in Builds :
          \/ CreateBegin(b, {0})
          \/ CreateEnd(b)
          \/ CollectorName(b)
          \/ AddUserKey(b, LongValues, MaxKeys)
          \/ BlockAdd(b)
          \/ FinishProperties(b, {TRUE}, {})
          \/ GetReadableProperties(b, {})
          \/ CollectorDestroy(b)

\* the engine building tables, builds overlapping
Spec == Init /\ [][Next]_vars

\* one table build, with records of both sizes, and the read-back of its table
NextRoundTrip ==
    \/ CreateBegin(1, {0})
    \/ CreateEnd(1)
    \/ AddUserKey(1, InputValues, MaxRoundTripKeys)
    \/ BlockAdd(1)
    \/ FinishProperties(1, BOOLEAN, {})
    \/ GetReadableProperties(1, {})
    \/ CollectorDestroy(1)
    \/ ReadBack(1)

SpecRoundTrip == Init /\ [][NextRoundTrip]_vars

\* the same with a collector of any implementation: its finish_properties may
\* return any map of ArbitraryMaps
NextMarshal ==
    \/ CreateBegin(1, {0})
    \/ CreateEnd(1)
    \/ AddUserKey(1, InputValues, MaxRoundTripKeys)
    \/ BlockAdd(1)
    \/ FinishProperties(1, BOOLEAN, ArbitraryMaps)
    \/ GetReadableProperties(1, ReadableMaps)
    \/ CollectorDestroy(1)
    \/ ReadBack(1)

SpecMarshal == Init /\ [][NextMarshal]_vars

\* one table build with every call recorded: the engine passes an add-property
\* function or none, the collector inherits get_readable_properties or not
NextSlots ==
    \/ FactoryName
    \/ FactoryDestroy
    \/ CreateBegin(1, Levels)
    \/ CreateEnd(1)
    \/ CollectorName(1)
    \/ AddUserKey(1, InputValues, MaxRoundTripKeys)
    \/ BlockAdd(1)
    \/ FinishProperties(1, BOOLEAN, {})
    \/ GetReadableProperties(1, ReadableMaps)
    \/ CollectorDestroy(1)
    \/ ReadBack(1)

SpecSlots == InitTraced /\ [][NextSlots]_vars

\* the factory serving overlapping builds at any level, every call recorded;
\* the collectors are named and destroyed, no record is fed to them
NextCreate ==
    \/ FactoryName
    \/ FactoryDestroy
    \/ \E b \in Builds :
          \/ CreateBegin(b, Levels)
          \/ CreateEnd(b)
          \/ CollectorName(b)
          \/ CollectorDestroy(b)

SpecCreate == InitTraced /\ [][NextCreate]_vars

(***************************************************************************)
(* Entry type codec on its own.                                            *)
(***************************************************************************)
TagInputs == ((-MaxTag)..MaxTag) \cup {I32Min, I32Max}

\* EntryType::from_raw applied to a raw tag
Decode(value) ==
    /\ rawTag' = value
    /\ decoded' = from_raw(value)
    /\ decodeDone' = TRUE
    /\ UNCHANGED <<buildVars, readVars>>

NextCodec == \E value \in TagInputs : Decode(value)

SpecCodec == Init /\ [][NextCodec]_vars

(***************************************************************************)
(* Read side: TablePropertiesCollection and TableProperties.               *)
(***************************************************************************)
\* the null pointer
NULL == 0

\* the property sets a table of the engine may hold
StoredKinds ==
    { [user |-> <<>>, readable |-> <<>>],
      [user |-> <<<<NumKeysKey, to_string(1)>>, <<TotalBytesKey, to_string(3)>>>>,
       readable |-> <<>>],
      [user |-> <<<<K1, ValA>>>>, readable |-> <<<<K1, ValLong>>, <<K1, ValA>>>>] }

\* the engine's rocksdb_table_properties_collection_next: the next handle of
\* the collection, or null when there is none left
rocksdb_table_properties_collection_next(collection) ==
    IF collection = <<>>
    THEN [result |-> NULL, rest |-> <<>>]
    ELSE [result |-> Head(collection), rest |-> Tail(collection)]

\* the engine's rocksdb_table_properties_destroy
rocksdb_table_properties_destroy(t) ==
    [state |-> "destroyed", destroys |-> t.destroys + 1]

\* TableProperties::from_raw
TableProperties_from_raw(inner) == [inner |-> inner]

\* the mutation of the loop into a single `if`: at most one table is taken
from_raw_once(collection, acc, calls) ==
    LET properties == rocksdb_table_properties_collection_next(collection)
    IN  IF properties.result = NULL
        THEN [tables |-> acc, calls |-> calls + 1]
        ELSE [tables |-> Append(acc, TableProperties_from_raw(properties.result)),
              calls |-> calls + 1]

\* the loop of TablePropertiesCollection::from_raw, with the calls of next counted
RECURSIVE from_raw_loop(_, _, _)
from_raw_loop(collection, acc, calls) ==
    LET properties == rocksdb_table_properties_collection_next(collection)
    IN  IF properties.result = NULL
        THEN [tables |-> acc, calls |-> calls + 1]
        ELSE from_raw_loop(properties.rest,
                           Append(acc, TableProperties_from_raw(properties.result)),
                           calls + 1)

\* TablePropertiesCollection::from_raw
TablePropertiesCollection_from_raw(collection) == from_raw_loop(collection, <<>>, 0)

\* a TableProperties without a Drop implementation
DropLeak(engine, table) == engine

\* Drop for TableProperties
Drop(engine, table) ==
    [engine EXCEPT ![table.inner] = rocksdb_table_properties_destroy(@)]

\* a Vec<TableProperties> is dropped: each element is
RECURSIVE DropVec(_, _)
DropVec(engine, vec) ==
    IF vec = <<>> THEN engine ELSE DropVec(Drop(engine, Head(vec)), Tail(vec))

\* the TableProperties values alive
Owned == tables \o cur

\* the engine enumerates n more tables and TablePropertiesCollection::from_raw
\* drains the collection
FromRaw(n) ==
    /\ ~collHeld
    /\ issued + n <= MaxHandles
    /\ \E kinds \in [(issued + 1)..(issued + n) -> StoredKinds] :
          LET collection == [i \in 1..n |-> issued + i]
              result == TablePropertiesCollection_from_raw(collection)
          IN  /\ issued' = issued + n
              /\ tp' = [k \in Handles |->
                           IF k \in (issued + 1)..(issued + n)
                           THEN [state |-> "live", destroys |-> 0] ELSE tp[k]]
              /\ stored' = [k \in Handles |->
                               IF k \in (issued + 1)..(issued + n)
                               THEN kinds[k] ELSE stored[k]]
              /\ reported' = collection
              /\ lastBuilt' = result
              /\ tables' = result.tables
              /\ built' = TRUE
              /\ collHeld' = TRUE
    /\ UNCHANGED <<buildVars, codecVars, cur, readAfterDestroy, lastMap>>

\* `for table in collection.tables`: the next table is moved out of the vector
TakeNext ==
    /\ collHeld
    /\ tables # <<>>
    /\ cur = <<>>
    /\ cur' = <<Head(tables)>>
    /\ tables' = Tail(tables)
    /\ UNCHANGED <<buildVars, codecVars, issued, tp, stored, collHeld, reported,
                   built, lastBuilt, readAfterDestroy, lastMap>>

\* the end of the loop body: the table moved out is dropped
DropCur ==
    /\ cur # <<>>
    /\ tp' = Drop(tp, cur[1])
    /\ cur' = <<>>
    /\ UNCHANGED <<buildVars, codecVars, issued, stored, collHeld, tables,
                   reported, built, lastBuilt, readAfterDestroy, lastMap>>

\* the collection, or the rest of its iteration, is dropped
DropCollection ==
    /\ collHeld
    /\ tp' = DropVec(tp, tables)
    /\ tables' = <<>>
    /\ collHeld' = FALSE
    /\ UNCHANGED <<buildVars, codecVars, issued, stored, cur, reported, built,
                   lastBuilt, readAfterDestroy, lastMap>>

\* TableProperties::user_collected_properties on an owned value
ReadUser(i) ==
    /\ i \in 1..Len(Owned)
    /\ LET inner == Owned[i].inner
       IN  /\ lastMap' = <<inner, "user", user_collected_properties(stored[inner])>>
           /\ readAfterDestroy' = (readAfterDestroy \/ tp[inner].state # "live")
    /\ UNCHANGED <<buildVars, codecVars, issued, tp, stored, collHeld, tables, cur,
                   reported, built, lastBuilt>>

\* TableProperties::readable_properties on an owned value
ReadReadable(i) ==
    /\ i \in 1..Len(Owned)
    /\ LET inner == Owned[i].inner
       IN  /\ lastMap' = <<inner, "readable",
                           readable_properties(stored[inner])>>
           /\ readAfterDestroy' = (readAfterDestroy \/ tp[inner].state # "live")
    /\ UNCHANGED <<buildVars, codecVars, issued, tp, stored, collHeld, tables, cur,
                   reported, built, lastBuilt>>

\* TableProperties::name on an owned value
TableName(i) ==
    /\ i \in 1..Len(Owned)
    /\ readAfterDestroy' = (readAfterDestroy \/ tp[Owned[i].inner].state # "live")
    /\ UNCHANGED <<buildVars, codecVars, issued, tp, stored, collHeld, tables, cur,
                   reported, built, lastBuilt, lastMap>>

NextRead ==
    \/ \E n \in 0..MaxHandles : FromRaw(n)
    \/ TakeNext
    \/ DropCur
    \/ DropCollection
    \/ \E i \in 1..MaxHandles : ReadUser(i) \/ ReadReadable(i) \/ TableName(i)

SpecRead == Init /\ [][NextRead]_vars

(***************************************************************************)
(* Properties.                                                             *)
(***************************************************************************)
Live == [alloc |-> "live", frees |-> 0]
FreedOnce == [alloc |-> "freed", frees |-> 1]

\* the pairs a counting collector that saw `seen` delivers at finish
PairsOf(seen) ==
    << <<NumKeysKey, to_string(seen.puts)>>, <<TotalBytesKey, to_string(seen.bytes)>> >>

\* the map a counting collector that saw `seen` returns at finish
MapOf(seen) ==
    [k \in {NumKeysKey, TotalBytesKey} |->
        IF k = NumKeysKey THEN to_string(seen.puts) ELSE to_string(seen.bytes)]

\* C1: the allocation behind the factory's and behind each collector's opaque
\* pointer is live and never freed for as long as the engine has not called
\* that instance's destroy, whatever other slots were called, and it has been
\* freed exactly once when the engine has called destroy.
C1_OnlyDestroyReclaims ==
    /\ factoryHandle = "held" => factory.cell = Live
    /\ factoryHandle = "destroyed" => factory.cell = FreedOnce
    /\ \A b \in Builds :
          /\ handle[b] = "none" => heap[b] = [alloc |-> "none", frees |-> 0]
          /\ handle[b] = "held" => heap[b] = Live
          /\ handle[b] = "destroyed" => heap[b] = FreedOnce

\* a collector destroyed after it counted a record and finished, next to one
\* that finished and is still held, the factory being destroyed already
C1_Witness ==
    /\ factoryHandle = "destroyed"
    /\ factory.cell = FreedOnce
    /\ \E b, c \in Builds :
          /\ handle[b] = "destroyed" /\ heap[b] = FreedOnce
          /\ finished[b] = "forwarded" /\ own[b].puts = 1
          /\ handle[c] = "held" /\ heap[c] = Live /\ finished[c] = "forwarded"

\* C2: the map user_collected_properties reads back from the table of a build
\* equals the map the collector's finish_properties returned for it: same
\* keys, same value bytes.
C2_RoundTrip ==
    (lastRead # <<>> /\ finished[lastRead[1]] = "forwarded")
        => lastRead[2] = emitted[lastRead[1]]

\* three records counted, 23 bytes in all, and read back
C2_Witness ==
    /\ lastRead # <<>>
    /\ finished[1] = "forwarded"
    /\ DOMAIN lastRead[2] = {NumKeysKey, TotalBytesKey}
    /\ lastRead[2][NumKeysKey] = <<51>>
    /\ lastRead[2][TotalBytesKey] = <<50, 51>>

\* the ten documented tags with their variants
DocumentedVariants ==
    { <<rocksdb_k_entry_put, "Put">>,
      <<rocksdb_k_entry_delete, "Delete">>,
      <<rocksdb_k_entry_single_delete, "SingleDelete">>,
      <<rocksdb_k_entry_merge, "Merge">>,
      <<rocksdb_k_entry_range_deletion, "RangeDeletion">>,
      <<rocksdb_k_entry_block_index, "BlockIndex">>,
      <<rocksdb_k_entry_delete_with_timestamp, "DeleteWithTimestamp">>,
      <<rocksdb_k_entry_wide_column_entity, "WideColumnEntity">>,
      <<rocksdb_k_entry_timed_put, "TimedPut">>,
      <<rocksdb_k_entry_other, "Other">> }

\* C3: from_raw returns, for each documented tag, exactly its variant, and no
\* variant for a negative tag or a tag outside the documented ones.
C3_FromRawExact ==
    decodeDone =>
        /\ \A d \in DocumentedVariants : rawTag = d[1] => decoded = Some(d[2])
        /\ (rawTag < 0 \/ rawTag \notin DocumentedTags) => decoded = None

\* the first tag behind the documented ones is decoded to no variant
C3_Witness ==
    /\ decodeDone
    /\ rawTag = rocksdb_k_entry_other + 1
    /\ decoded = None

\* C4: an add-user-key call with a negative or undocumented tag aborts the
\* process; the collector's add_user_key is not invoked, no collector and no
\* property set changes, and the call does not return to the engine.
C4_BadTagAborts ==
    [][(~sentBadTag /\ sentBadTag') =>
          /\ proc' = "aborted"
          /\ abortCause' = "bad_tag"
          /\ obj' = obj
          /\ own' = own
          /\ props' = props
          /\ heap' = heap]_vars

\* a bad tag arrived at a collector that had counted a record
C4_Witness ==
    /\ sentBadTag
    /\ proc = "aborted"
    /\ \E b \in Builds : handle[b] = "held" /\ obj[b].num_keys = 1

\* C5: the pairs a finish-properties call delivered are those of the records
\* the collector was fed before the call, and stay so whatever add-user-key
\* and block-add calls follow.
C5_FinishSeesOnlyEarlierCalls ==
    \A b \in Builds :
        finished[b] = "forwarded" => props[b] = PairsOf(ownAtFinish[b])

\* a record was counted after the finish call
C5_Witness ==
    \E b \in Builds :
        /\ finished[b] = "forwarded"
        /\ ownAtFinish[b].puts = 0
        /\ own[b].puts = 1
        /\ obj[b].num_keys = 1
        /\ props[b] = PairsOf([puts |-> 0, bytes |-> 0])

\* C8: each collector's state is that of its own build's records, and the map
\* it returned at finish is that of its own records before the call, however
\* the calls of the builds interleave.
C8_CollectorsIsolated ==
    \A b \in Builds :
        handle[b] # "none" =>
            /\ obj[b] = [num_keys |-> own[b].puts, total_bytes |-> own[b].bytes]
            /\ finished[b] = "forwarded" => emitted[b] = MapOf(ownAtFinish[b])

\* two collectors held at once that finished with different maps
C8_Witness ==
    \E b, c \in Builds :
        /\ handle[b] = "held" /\ handle[c] = "held"
        /\ finished[b] = "forwarded" /\ finished[c] = "forwarded"
        /\ ownAtFinish[b].puts = 1 /\ ownAtFinish[c].puts = 0
        /\ emitted[b] # emitted[c]

\* C9: when no create call is in progress, the factory's state is that of the
\* create calls run one after the other: it counts each finished call once.
C9_CreateSerializable ==
    (\A b \in Builds : pc[b] # "creating")
        => factory.created = Cardinality({b \in Builds : pc[b] = "created"})

C6_FromRawDrains ==
    built =>
        /\ lastBuilt.tables =
               [i \in 1..Len(reported) |-> TableProperties_from_raw(reported[i])]
        /\ lastBuilt.calls = Len(reported) + 1

\* a collection of two tables
C6_Witness ==
    /\ built
    /\ Len(reported) = 2
    /\ Len(lastBuilt.tables) = 2
    /\ lastBuilt.calls = 3

\* the handles held by the TableProperties values alive
OwnedHandles == {Owned[i].inner : i \in 1..Len(Owned)}

\* C7: every handle handed out is held by exactly one TableProperties value
\* and is live, or is held by none and was destroyed exactly once; no accessor
\* ran on a destroyed handle.
C7_HandleDestroyedOnce ==
    /\ Cardinality(OwnedHandles) = Len(Owned)
    /\ \A k \in Handles :
          /\ k > issued => tp[k] = [state |-> "none", destroys |-> 0]
          /\ (k <= issued /\ k \in OwnedHandles)
                => tp[k] = [state |-> "live", destroys |-> 0]
          /\ (k <= issued /\ k \notin OwnedHandles)
                => tp[k] = [state |-> "destroyed", destroys |-> 1]
    /\ ~readAfterDestroy

\* the collection is gone, one table taken out of it is still alive and was
\* read, the others are destroyed
C7_Witness ==
    /\ ~collHeld
    /\ Len(cur) = 1
    /\ lastMap # <<>>
    /\ lastMap[1] = cur[1].inner
    /\ \E k \in Handles : tp[k].destroys = 1

\* C11: once the finish-properties slot of a collector has been called, a
\* further add-user-key or block-add call on that collector is not forwarded:
\* the collector's state and the properties it emitted stay as they were (the
\* process aborts instead).
C11_OutOfSequenceFatal ==
    [][\A b \in Builds :
          (finished[b] # "no" /\ handle[b] = "held")
              => (obj'[b] = obj[b] /\ props'[b] = props[b])]_vars

\* C12: a get-readable-properties call on a collector that inherits the
\* trait's default invokes the method, which returns the empty map in whatever
\* state the collector is: no add-property call is made, the table's readable
\* set stays empty and readable_properties reads back the empty map.
C12_DefaultReadableEmpty ==
    (lastCall.slot = "get_readable_properties" /\ lastCall.inherited) =>
        /\ lastCall.pushes = 0
        /\ lastCall.callback => lastCall.forwards = 1
        /\ readable[lastCall.build] = <<>>
        /\ (lastRead # <<>> /\ lastRead[1] = lastCall.build) => lastRead[3] = EmptyMap

\* the default ran, with an add-property function, on a collector that had
\* counted a record and finished with two pairs, and the table was read back
C12_Witness ==
    /\ lastCall.slot = "get_readable_properties"
    /\ lastCall.inherited /\ lastCall.callback /\ lastCall.forwards = 1
    /\ proc = "running"
    /\ obj[1].num_keys = 1
    /\ Len(props[1]) = 2
    /\ lastRead # <<>> /\ lastRead[3] = EmptyMap /\ DOMAIN lastRead[2] # {}

\* the decimal digits of a number below 100
Decimal(n) == IF n < 10 THEN <<48 + n>> ELSE <<48 + (n \div 10), 48 + (n % 10)>>

\* C13: the counting collector's counters are the number of add-user-key calls
\* with the Put tag and the sum of their key and value lengths, calls with
\* another tag changing neither; at finish it reports them in decimal under
\* num-keys and total-bytes; and the table of a build with the single Put of
\* k1 and a reads back num-keys = "1".
C13_CountsPuts ==
    /\ handle[1] # "none" =>
          obj[1] = [num_keys |-> own[1].puts, total_bytes |-> own[1].bytes]
    /\ finished[1] = "forwarded" =>
          /\ DOMAIN emitted[1] = {NumKeysKey, TotalBytesKey}
          /\ emitted[1][NumKeysKey] = Decimal(ownAtFinish[1].puts)
          /\ emitted[1][TotalBytesKey] = Decimal(ownAtFinish[1].bytes)
    /\ (lastRead # <<>> /\ finished[1] = "forwarded"
            /\ ownAtFinish[1] = [puts |-> 1, bytes |-> Len(K1) + Len(ValA)])
          => lastRead[2][NumKeysKey] = <<49>>

\* the build of the test: the Put of k1 and a, finish, and the read-back of
\* "1"; a Delete forwarded to the collector afterwards left the counters alone
C13_Witness ==
    /\ lastCall.slot = "add_user_key"
    /\ lastCall.tag = rocksdb_k_entry_delete
    /\ lastCall.forwards = 1
    /\ proc = "running"
    /\ obj[1] = [num_keys |-> 1, total_bytes |-> 3]
    /\ finished[1] = "forwarded"
    /\ ownAtFinish[1] = [puts |-> 1, bytes |-> 3]
    /\ lastRead # <<>>
    /\ lastRead[2][NumKeysKey] = <<49>>

\* the keys of the pairs of a property set
KeysOf(set) == {set[i][1] : i \in 1..Len(set)}

\* the values a property set holds for a key
ValuesOf(set, k) == {set[i][2] : i \in {j \in 1..Len(set) : set[j][1] = k}}

\* the property set of a table that an accessor reads
SetRead(table, accessor) ==
    IF accessor = "user" THEN table.user ELSE table.readable

\* C14: a call of user_collected_properties or readable_properties changes
\* neither the handle nor any property set nor who owns the handle; the map
\* it returns holds keys and values of its own property set only; and the
\* map is the caller's: destroying the TableProperties, or any other step,
\* leaves it as it was returned.
C14_AccessorsCopy ==
    [][/\ lastMap' # lastMap =>
             (tp' = tp /\ stored' = stored /\ tables' = tables /\ cur' = cur)
       /\ (tp' # tp \/ tables' # tables \/ cur' # cur) => lastMap' = lastMap
       /\ lastMap' # <<>> =>
             LET set == SetRead(stored'[lastMap'[1]], lastMap'[2])
             IN  /\ DOMAIN lastMap'[3] = KeysOf(set)
                 /\ \A k \in KeysOf(set) : lastMap'[3][k] \in ValuesOf(set, k)]_vars

\* the readable map of a table whose two sets differ, kept after the
\* TableProperties it was read from was destroyed
C14_Witness ==
    /\ lastMap # <<>>
    /\ lastMap[2] = "readable"
    /\ tp[lastMap[1]] = [state |-> "destroyed", destroys |-> 1]
    /\ lastMap[3] = [k \in {K1} |-> ValA]
    /\ stored[lastMap[1]].user # stored[lastMap[1]].readable

\* C15: every call of a collector slot invokes the collector's corresponding
\* method exactly once, on the instance behind the opaque pointer: name,
\* block-add, finish-properties and get-readable-properties whatever their
\* arguments, a null add-property function included, and add-user-key when
\* the tag is a documented one.
C15_ForwardsOnce ==
    /\ lastCall.slot \in {"name", "block_add", "finish_properties",
                          "get_readable_properties"}
          => (lastCall.forwards = 1 /\ lastCall.build \in Builds)
    /\ (lastCall.slot = "add_user_key" /\ lastCall.tag \in DocumentedTags)
          => (lastCall.forwards = 1 /\ lastCall.build \in Builds)

\* the calls of the add-property function `sink` received are those of one
\* marshaling of `map`: one per pair, by ascending key
IsPushOf(sink, map) ==
    /\ Len(sink) = Cardinality(DOMAIN map)
    /\ \A i \in 1..Len(sink) :
          sink[i][1] \in DOMAIN map /\ sink[i][2] = map[sink[i][1]]
    /\ \A i, j \in 1..Len(sink) : i < j => LexLess(sink[i][1], sink[j][1])

\* C16: a finish-properties call with an add-property function calls it once
\* per pair of the map the collector returned, by ascending key, with that
\* pair's bytes and on the sink the engine passed; a get-readable-properties
\* call does the same with its map and its sink; no other sink receives a pair.
C16_PushesEachPairOnce ==
    /\ finished[1] = "forwarded" => IsPushOf(props[1], emitted[1])
    /\ finished[1] # "forwarded" => props[1] = <<>>
    /\ readable[1] = <<>> \/ \E map \in ReadableMaps : IsPushOf(readable[1], map)
    /\ \A b \in Builds \ {1} : props[b] = <<>> /\ readable[b] = <<>>

\* a map of three pairs, one key a prefix of another, was pushed to the
\* user-collected sink, and the two readable pairs to the readable sink
C16_Witness ==
    /\ finished[1] = "forwarded"
    /\ DOMAIN emitted[1] = SampleKeys
    /\ Len(props[1]) = 3
    /\ props[1][1][1] = <<>> /\ props[1][2][1] = <<0>> /\ props[1][3][1] = <<0, 1>>
    /\ Len(readable[1]) = 2
    /\ readable[1][1][1] = K1

\* C17: a call of the factory's create slot invokes the user's create once,
\* with a context whose level_at_creation is the level of the engine's context
\* handle; when it returns, the engine holds a handle on a newly allocated
\* collector in its initial state, no collector that existed before is
\* touched, and there are as many collectors as create calls that returned.
C17_CreateFresh ==
    [][/\ lastCall'.slot = "create" =>
             /\ lastCall'.forwards = 1
             /\ lastCall'.ctx = Some([level_at_creation |-> lastCall'.level])
       /\ \A b \in Builds :
             (pc[b] = "creating" /\ pc'[b] = "created") =>
                 /\ heap[b].alloc = "none" /\ handle[b] = "none"
                 /\ heap'[b] = Live /\ handle'[b] = "held"
                 /\ obj'[b] = [num_keys |-> 0, total_bytes |-> 0]
                 /\ \A c \in Builds \ {b} :
                       heap'[c] = heap[c] /\ obj'[c] = obj[c] /\ handle'[c] = handle[c]
       /\ Cardinality({b \in Builds : handle'[b] # "none"})
              = Cardinality({b \in Builds : pc'[b] = "created"})]_vars

\* a second collector was created, at level 6, next to one that is live
C17_Witness ==
    /\ lastCall.slot = "create"
    /\ lastCall.level = 6
    /\ lastCall.ctx = Some([level_at_creation |-> 6])
    /\ \E b, c \in Builds :
          /\ b # c
          /\ lastCall.build = c
          /\ handle[b] = "held" /\ heap[b] = Live
          /\ handle[c] = "held" /\ heap[c] = Live

\* the map of a sequence of deliveries: each key with the value delivered last
LastWins(set) ==
    [k \in KeysOf(set) |->
        LET last == CHOOSE i \in 1..Len(set) :
                        /\ set[i][1] = k
                        /\ \A j \in 1..Len(set) : set[j][1] = k => j <= i
        IN  set[last][2]]

\* C18: the map an accessor returns has one entry per distinct key the
\* for-each delivered from the accessor's set, each with the value delivered
\* last for it, and nothing else: no pair of an earlier read, of another
\* table or of the other set.
C18_ReaderLastWins ==
    lastMap # <<>> =>
        LET set == SetRead(stored[lastMap[1]], lastMap[2])
        IN  /\ lastMap[3] = LastWins(set)
            /\ Cardinality(DOMAIN lastMap[3]) = Cardinality(KeysOf(set))

\* a set that delivers the key k1 twice was read, next to a table with two
\* other keys: one entry, the value delivered last
C18_Witness ==
    /\ lastMap # <<>>
    /\ lastMap[2] = "readable"
    /\ tp[lastMap[1]].state = "live"
    /\ stored[lastMap[1]].readable = <<<<K1, ValLong>>, <<K1, ValA>>>>
    /\ DOMAIN lastMap[3] = {K1}
    /\ lastMap[3][K1] = ValA
    /\ \E k \in Handles : Len(stored[k].user) = 2

\* C19: the factory's destroy frees and changes no collector; a collector's
\* destroy frees that collector only and leaves the factory and every other
\* collector as they were; and once the factory is destroyed, each collector
\* still held is live, counts the records it is fed and has delivered at
\* finish the pairs of the records fed to it before.
C19_LifetimesIndependent ==
    [][/\ factoryHandle' # factoryHandle =>
             (heap' = heap /\ obj' = obj /\ handle' = handle /\ props' = props)
       /\ \A b \in Builds :
             handle'[b] # handle[b] /\ handle'[b] = "destroyed" =>
                 /\ factory' = factory /\ factoryHandle' = factoryHandle
                 /\ \A c \in Builds \ {b} :
                       heap'[c] = heap[c] /\ obj'[c] = obj[c] /\ handle'[c] = handle[c]
       /\ factoryHandle' = "destroyed" =>
             \A b \in Builds :
                 handle'[b] = "held" =>
                     /\ heap'[b] = Live
                     /\ obj'[b] = [num_keys |-> own'[b].puts,
                                   total_bytes |-> own'[b].bytes]
                     /\ finished'[b] = "forwarded" =>
                            props'[b] = PairsOf(ownAtFinish'[b])]_vars

\* the factory is gone and so is one of its collectors; the other, still
\* live, has counted a record and finished
C19_Witness ==
    /\ factoryHandle = "destroyed"
    /\ factory.cell = FreedOnce
    /\ \E b, c \in Builds :
          /\ handle[b] = "destroyed" /\ heap[b] = FreedOnce
          /\ handle[c] = "held" /\ heap[c] = Live
          /\ obj[c].num_keys = 1
          /\ finished[c] = "forwarded"
          /\ props[c] = PairsOf([puts |-> 1, bytes |-> Len(K1) + Len(ValLong)])

====
